---------------------------- MODULE Spec2Model ----------------------------
(***************************************************************************)
(* The Stk-push repository holds five alternative Express servers, each a  *)
(* variant of one payment relay:                                           *)
(*   "server"   src/server.js              in-memory payments list         *)
(*   "file"     src/unnamed/part_001       payments list saved to a file   *)
(*   "balance"  src/unnamed/part_000:1-245 in-memory balances              *)
(*   "receipts" src/unnamed/part_000:247-  receipts file, /pay, /callback  *)
(*   "minimal"  src/unnamed/part_002       stateless relay                 *)
(* A behaviour of this module is one run of one of them: Init picks the    *)
(* program, and an action is the code a handler runs between two awaits    *)
(* (Node runs one such segment at a time, so a segment is atomic).         *)
(***************************************************************************)
EXTENDS Integers, Sequences, FiniteSets, TLC

VARIABLES
  program,    \* which server file is running
  now,        \* Date.now()
  payments,   \* server, file: the payments array
  saved,      \* file: the list written to payments.json (<<>> : no file yet)
  writeFailures, \* file: the fs.writeFileSync calls of savePayments that threw
  balances,   \* balance: the balances object, phone -> amount
  credits,    \* balance: per checkout_request_id, the creditBalance calls made for it
  receipts,   \* receipts: the content of receipts.json, reference -> receipt
  gateway,    \* the gateway: the initiate requests it accepted, by checkout_request_id
  stk,        \* the POST /stkpush handlers, by request
  chk,        \* the one-shot handlers (status checks, reads, callbacks), by request
  pay         \* receipts: the POST /pay handlers, by request

vars == <<program, now, payments, saved, writeFailures, balances, credits,
          receipts, gateway, stk, chk, pay>>

---------------------------------------------------------------------------
(* Bounds of the model.                                                    *)
MaxStk == 2       \* POST /stkpush requests in one run
MaxInFlight == 1  \* POST /stkpush requests being handled at the same time
MaxChk == 1       \* POST /payments/:id/check-status requests in one run
MaxTxs == 1       \* POST /transaction/status requests in one run
MaxPay == 2       \* POST /pay requests in one run
MaxCallbacks == 2 \* POST /callback requests in one run
MaxClock == 1     \* the clock runs from 0 to MaxClock
MaxWriteFailures == 1  \* failing writes of payments.json in one run

(* Program constants.                                                      *)
maxAttempts == 24
MaxAmount == 300000
ReleaseAfter == 24 * 60 * 60 * 1000   \* the 24 hours of the sweep, in ms

Programs == {"server", "file", "balance", "receipts", "minimal"}

(* null / undefined, and a present value: an optional value is a sequence  *)
(* of at most one element.                                                 *)
Null == <<>>
Some(x) == <<x>>

(* x || d  for an optional string x.                                       *)
OrElse(x, d) == IF x = Null THEN d ELSE x[1]

---------------------------------------------------------------------------
(* Request inputs.  A phone is the sequence of its characters: 0..9 are    *)
(* the digits, 43 is "+"; the empty sequence is a missing (falsy) phone.   *)
Plus == 43
Phone254 == <<2, 5, 4, 7, 1, 2, 3, 4, 5, 6, 7, 8>>
Phone07 == <<0, 7, 1, 2, 3, 4, 5, 6, 7, 8>>
PhonePlus == <<Plus>> \o Phone254
PhoneInputs == {<<>>, Phone254, Phone07}

(* An amount of 0 also stands for a missing amount: both are falsy.        *)
AmountInputs == {0, -5, 500, MaxAmount + 1}

(* The bodies of POST /transaction/status: the phone and amount are the    *)
(* client's to choose.                                                     *)
TxPhoneInputs == {<<>>, Phone254, Phone07}
TxAmountInputs == {0, 500}

(* The bodies of POST /pay: a phone in local, international or short form, *)
(* or none, and an amount.                                                 *)
Phone7 == <<7, 1, 2, 3, 4, 5, 6, 7, 8>>
PayPhoneInputs == {<<>>, Phone07, Phone7, PhonePlus, <<Plus, 2, 5, 4>>}
PayAmountInputs == {0, 100}

(* The bodies of POST /stkpush sent to the balances server.                *)
BalPhoneInputs == {<<>>, Phone254}
BalAmountInputs == {0, -5, 500}

IsDigit(c) == c \in 0..9

(* phone.match(/^2547\d{8}$/)                                              *)
PhoneMatches(p) ==
  /\ Len(p) = 12
  /\ p[1] = 2 /\ p[2] = 5 /\ p[3] = 4 /\ p[4] = 7
  /\ \A i \in 5..12 : IsDigit(p[i])

---------------------------------------------------------------------------
(* The gateway.  An outcome of a call is a thrown error (network failure   *)
(* or a non-2xx answer, which axios throws) or the answer's data.          *)
TxnCode == "QWE123"
NoData == [success |-> FALSE, status |-> "none", transaction_code |-> Null,
           message |-> Null, checkout_request_id |-> Null]

StatusData ==
  { [NoData EXCEPT !.success = TRUE, !.status = "pending"],
    [NoData EXCEPT !.success = TRUE, !.status = "completed",
                   !.transaction_code = Some(TxnCode)],
    [NoData EXCEPT !.success = TRUE, !.status = "failed"],
    [NoData EXCEPT !.success = TRUE, !.status = "failed",
                   !.message = Some("Cancelled by user")],
    [NoData EXCEPT !.message = Some("Gateway busy")] }

Outcome(thrown, data) == [thrown |-> thrown, data |-> data]
Thrown == Outcome(TRUE, NoData)
StatusOutcomes == {Thrown} \cup {Outcome(FALSE, d) : d \in StatusData}

(* The gateway has accepted an initiate request for phone and amount.     *)
GatewayAccepts(phone, amount) ==
  Append(gateway, [phone |-> phone, amount |-> amount])

(* The answers to an initiate call: accepted with a fresh                  *)
(* checkout_request_id, or rejected with or without a message.             *)
InitiateData ==
  { [NoData EXCEPT !.success = TRUE, !.checkout_request_id = Some(Len(gateway) + 1)],
    [NoData EXCEPT !.message = Some("Insufficient merchant float")],
    NoData }
---------------------------------------------------------------------------
(* Handlers.  pc is the await a handler is suspended at: "idle" (request   *)
(* not yet made), "initiate" (the initiate call), "status" (a status       *)
(* query), "delay" (the 5 s timer) or "done" (response sent).              *)
NoReply == [code |-> 0, success |-> FALSE, message |-> Null, error |-> Null,
            payment_id |-> Null, reference |-> Null,
            checkout_request_id |-> Null, transaction_code |-> Null,
            status |-> Null, balance |-> Null, lastStatus |-> Null,
            ResultCode |-> Null, ResultDesc |-> Null, stats |-> Null]

IdleStk == [pc |-> "idle", phone |-> <<>>, amount |-> 0, reference |-> Null,
            pidx |-> 0, checkout |-> Null, attempt |-> 0, statusResult |-> Null,
            initiates |-> 0, queries |-> 0, delays |-> 0, sent |-> 0,
            res |-> NoReply]

IdleChk == [pc |-> "idle", id |-> Null, checkout |-> Null, phone |-> <<>>,
            amount |-> 0, pidx |-> 0, queries |-> 0, sent |-> 0,
            statusResult |-> Null, res |-> NoReply]

IdlePay == [pc |-> "idle", phone |-> Null, amount |-> 0, reference |-> Null,
            initiates |-> 0, sent |-> 0, res |-> NoReply]

(* Requests take the handler slots in order, and at most MaxInFlight       *)
(* /stkpush requests are being handled at a time.                          *)
InFlight == {r \in 1..MaxStk : stk[r].pc \notin {"idle", "done"}}
NextStk(r) ==
  /\ stk[r].pc = "idle"
  /\ \A q \in 1..(r - 1) : stk[q].pc # "idle"
  /\ Cardinality(InFlight) < MaxInFlight
ChkSlots ==
  CHOOSE n \in {MaxChk, MaxTxs, MaxCallbacks} :
    \A m \in {MaxChk, MaxTxs, MaxCallbacks} : m <= n
NextChk(k) == chk[k].pc = "idle" /\ \A q \in 1..(k - 1) : chk[q].pc # "idle"
NextPay(q) == pay[q].pc = "idle" /\ \A j \in 1..(q - 1) : pay[j].pc # "idle"

(* res.status(code).json(body): the handler's response, and its end; the   *)
(* locals of a handler that has returned are gone.                         *)
Respond(h, code, body) ==
  [pc |-> "done", sent |-> h.sent + 1, res |-> [body EXCEPT !.code = code]]
  @@ (IF "attempt" \in DOMAIN h THEN IdleStk
      ELSE IF "id" \in DOMAIN h THEN IdleChk ELSE IdlePay)

(* generatePaymentId(): `PAY_${Date.now()}_${random}`; the random suffix   *)
(* is modelled as distinct for each draw.                                  *)
generatePaymentId(n) == <<now, n>>

(* `ORDER_${Date.now()}`                                                   *)
OrderReference == now

(* The clock advances.                                                     *)
Tick ==
  /\ now < MaxClock
  /\ now' = now + 1
  /\ UNCHANGED <<program, payments, saved, writeFailures, balances, credits,
                 receipts, gateway, stk, chk, pay>>

---------------------------------------------------------------------------
(* src/server.js                                                           *)

(* A thrown error reported as a payment the gateway declared failed.      *)
checkPaymentStatusFailsOnError(o) ==
  IF o.thrown
    THEN [NoData EXCEPT !.success = TRUE, !.status = "failed",
                        !.message = Some("Status check failed")]
    ELSE o.data

(* async checkPaymentStatus: a thrown error becomes a success:false        *)
(* answer.                                                                 *)
checkPaymentStatus(o) ==
  IF o.thrown THEN [NoData EXCEPT !.message = Some("Status check failed")]
  ELSE o.data

(* The payment record built by POST /stkpush (description and updated_at   *)
(* are left out: nothing reads them).                                      *)
NewPayment(id, phone, amount, reference) ==
  [id |-> id, phone |-> phone, amount |-> amount, reference |-> reference,
   status |-> "pending", created_at |-> now,
   checkout_request_id |-> Null, transaction_code |-> Null,
   error_message |-> Null]

(* The three validation answers of POST /stkpush, or Null when the body    *)
(* passes.                                                                 *)
StkPushValidation(phone, amount) ==
  IF phone = <<>> \/ amount = 0
    THEN Some("Phone and amount are required")
  ELSE IF ~PhoneMatches(phone)
    THEN Some("Invalid phone number format. Use 2547XXXXXXXX")
  ELSE IF amount <= 0 \/ amount > MaxAmount
    THEN Some("Amount must be between 1 and 300,000")
  ELSE Null

(* The same write made only while the payment is still 'pending'.         *)
MarkCompletedIfPending(p, data) ==
  IF p.status = "pending"
    THEN [p EXCEPT !.status = "completed",
                   !.transaction_code = data.transaction_code]
    ELSE p

(* payment.status = 'completed' ... of the poll loop and of check-status.  *)
MarkCompleted(p, data) ==
  [p EXCEPT !.status = "completed",
            !.transaction_code = data.transaction_code]

(* The same write also clearing the amount of the payment.                *)
MarkFailedClearsAmount(p, data) ==
  [p EXCEPT !.status = "failed",
            !.error_message = Some(OrElse(data.message, "Payment failed")),
            !.amount = 0]

(* payment.status = 'failed' ... of the poll loop and of check-status.     *)
MarkFailed(p, data) ==
  [p EXCEPT !.status = "failed",
            !.error_message = Some(OrElse(data.message, "Payment failed"))]

(* The same write without the "|| 'STK Push initiation failed'" default.   *)
MarkInitiateFailedNoDefault(p, data) ==
  [p EXCEPT !.status = "failed", !.error_message = data.message]

(* payment.status = 'failed' after a rejected initiate call.               *)
MarkInitiateFailed(p, data) ==
  [p EXCEPT !.status = "failed",
            !.error_message =
               Some(OrElse(data.message, "STK Push initiation failed"))]

(* payment.status = 'timeout' after the loop.                              *)
MarkTimeout(p) ==
  [p EXCEPT !.status = "timeout",
            !.error_message = Some("Payment status check timeout")]

(* The same body with success always true.                                 *)
StkBodyReportsSuccess(h, p, success, message) ==
  [NoReply EXCEPT !.success = TRUE, !.message = Some(message),
                  !.payment_id = Some(p.id), !.reference = Some(h.reference[1]),
                  !.checkout_request_id = h.checkout]

(* The body of the success and failure responses of the loop.              *)
StkBody(h, p, success, message) ==
  [NoReply EXCEPT !.success = success, !.message = Some(message),
                  !.payment_id = Some(p.id), !.reference = Some(h.reference[1]),
                  !.checkout_request_id = h.checkout]

(* POST /stkpush up to its first await: validation, the record, and the    *)
(* initiate call.                                                          *)
StkPushRequest(r, phone, amount) ==
  /\ program = "server"
  /\ NextStk(r)
  /\ LET v == StkPushValidation(phone, amount)
         h == [stk[r] EXCEPT !.phone = phone, !.amount = amount]
         id == generatePaymentId(Len(payments) + 1)
     IN IF v # Null
          THEN /\ stk' = [stk EXCEPT ![r] =
                    Respond(h, 400, [NoReply EXCEPT !.message = v])]
               /\ UNCHANGED payments
          ELSE /\ payments' =
                    Append(payments, NewPayment(id, phone, amount, OrderReference))
               /\ stk' = [stk EXCEPT ![r] =
                    [h EXCEPT !.pc = "initiate", !.reference = Some(OrderReference),
                              !.pidx = Len(payments) + 1, !.initiates = @ + 1]]
  /\ UNCHANGED <<program, now, saved, writeFailures, balances, credits, receipts,
                 gateway, chk, pay>>

(* The initiate call has thrown and nothing catches it: the request is    *)
(* left without a response.                                                *)
StkPushInitiateUncaught(r) ==
  /\ program = "server"
  /\ stk[r].pc = "initiate"
  /\ stk' = [stk EXCEPT ![r].pc = "uncaught"]
  /\ UNCHANGED <<program, now, payments, saved, writeFailures, balances, credits,
                 receipts, gateway, chk, pay>>

(* The catch of POST /stkpush: the initiate call has thrown.               *)
StkPushInitiateThrows(r) ==
  /\ program = "server"
  /\ stk[r].pc = "initiate"
  /\ stk' = [stk EXCEPT ![r] =
        Respond(@, 500, [NoReply EXCEPT !.message = Some("Internal server error"),
                                        !.error = Some("Network Error")])]
  /\ UNCHANGED <<program, now, payments, saved, writeFailures, balances, credits,
                 receipts, gateway, chk, pay>>

(* The initiate call has answered: rejected, or accepted and the first     *)
(* status query is made.                                                   *)
StkPushInitiateReturns(r, data) ==
  /\ program = "server"
  /\ stk[r].pc = "initiate"
  /\ data \in InitiateData
  /\ LET h == stk[r]
         p == payments[h.pidx]
     IN IF ~data.success
          THEN LET q == MarkInitiateFailed(p, data)
               IN /\ payments' = [payments EXCEPT ![h.pidx] = q]
                  /\ stk' = [stk EXCEPT ![r] =
                       Respond(h, 400,
                         [NoReply EXCEPT !.message = q.error_message,
                                         !.payment_id = Some(p.id)])]
                  /\ UNCHANGED gateway
          ELSE /\ payments' = [payments EXCEPT ![h.pidx] =
                     [p EXCEPT !.checkout_request_id = data.checkout_request_id]]
               /\ stk' = [stk EXCEPT ![r] =
                     [h EXCEPT !.pc = "status",
                               !.checkout = data.checkout_request_id,
                               !.attempt = 0, !.queries = @ + 1]]
               /\ gateway' = GatewayAccepts(h.phone, h.amount)
  /\ UNCHANGED <<program, now, saved, writeFailures, balances, credits, receipts,
                 chk, pay>>

(* A status query of the loop has settled: a terminal answer ends the      *)
(* request, any other is followed by attempt++ and the 5 s timer.          *)
StkPushStatusReturns(r, o) ==
  /\ program = "server"
  /\ stk[r].pc = "status"
  /\ o \in StatusOutcomes
  /\ LET h == [stk[r] EXCEPT !.statusResult = Some(checkPaymentStatus(o))]
         p == payments[h.pidx]
         s == checkPaymentStatus(o)
     IN IF s.success /\ s.status = "completed"
          THEN /\ payments' = [payments EXCEPT ![h.pidx] = MarkCompleted(p, s)]
               /\ stk' = [stk EXCEPT ![r] =
                    Respond(h, 200,
                      [StkBody(h, p, TRUE, "Payment completed successfully")
                         EXCEPT !.transaction_code = s.transaction_code])]
        ELSE IF s.success /\ s.status = "failed"
          THEN LET q == MarkFailed(p, s)
               IN /\ payments' = [payments EXCEPT ![h.pidx] = q]
                  /\ stk' = [stk EXCEPT ![r] =
                       Respond(h, 200, StkBody(h, p, FALSE, q.error_message[1]))]
        ELSE /\ stk' = [stk EXCEPT ![r] =
                  [h EXCEPT !.attempt = @ + 1, !.pc = "delay", !.delays = @ + 1]]
             /\ UNCHANGED payments
  /\ UNCHANGED <<program, now, saved, writeFailures, balances, credits, receipts,
                 gateway, chk, pay>>

(* The 5 s timer has fired: the next status query while attempt < 24, the  *)
(* timeout write and response after that.                                  *)
StkPushDelayElapses(r) ==
  /\ program = "server"
  /\ stk[r].pc = "delay"
  /\ LET h == stk[r]
         p == payments[h.pidx]
     IN IF h.attempt < maxAttempts
          THEN /\ stk' = [stk EXCEPT ![r] =
                    [h EXCEPT !.pc = "status", !.queries = @ + 1]]
               /\ UNCHANGED payments
          ELSE /\ payments' = [payments EXCEPT ![h.pidx] = MarkTimeout(p)]
               /\ stk' = [stk EXCEPT ![r] =
                    Respond(h, 200,
                      [StkBody(h, p, FALSE,
                         "Payment status check timeout. Please check manually.")
                         EXCEPT !.lastStatus = h.statusResult])]
  /\ UNCHANGED <<program, now, saved, writeFailures, balances, credits, receipts,
                 gateway, chk, pay>>

(* A lookup that takes the first payment whatever the id.                  *)
FindPaymentAny(id) == IF Len(payments) > 0 THEN 1 ELSE 0

(* payments.find(p => p.id === id): the index of the first payment with    *)
(* that id, 0 when there is none.                                          *)
FindPayment(id) ==
  IF \E i \in 1..Len(payments) : payments[i].id = id
    THEN CHOOSE i \in 1..Len(payments) :
           /\ payments[i].id = id
           /\ \A j \in 1..(i - 1) : payments[j].id # id
    ELSE 0

(* The ids a client may ask about: those of the stored payments and one    *)
(* that matches none.                                                      *)
UnknownId == <<0, 0>>
IdInputs == {payments[i].id : i \in 1..Len(payments)} \cup {UnknownId}

(* The response of GET /payments/:id: the payment with that id, or 404.    *)
GetPaymentReply(id) ==
  LET i == FindPayment(id)
  IN IF i = 0
       THEN [NoReply EXCEPT !.code = 404, !.message = Some("Payment not found")]
       ELSE [NoReply EXCEPT
               !.code = 200,
               !.success = TRUE, !.payment_id = Some(payments[i].id),
               !.reference = Some(payments[i].reference),
               !.checkout_request_id = payments[i].checkout_request_id,
               !.transaction_code = payments[i].transaction_code,
               !.status = Some(payments[i].status)]

(* GET /payments/:id                                                       *)
GetPaymentRequest(k, id) ==
  /\ program = "server"
  /\ NextChk(k)
  /\ chk' = [chk EXCEPT ![k] =
       Respond(@, GetPaymentReply(id).code, GetPaymentReply(id))]
  /\ UNCHANGED <<program, now, payments, saved, writeFailures, balances, credits,
                 receipts, gateway, stk, pay>>

(* The last path segment "stats": as an id it is one that                  *)
(* generatePaymentId never makes.                                          *)
StatsSegment == <<-1, -1>>

(* The GET routes with two path segments, in the order of their            *)
(* app.get calls.                                                          *)
GetRoutes == <<"/payments/:id", "/payments/stats">>

(* Whether a route matches GET /payments/<segment>: a parameter matches    *)
(* any segment, a literal only itself.                                     *)
RouteMatches(route, segment) ==
  IF route = "/payments/:id" THEN TRUE ELSE segment = StatsSegment

(* Express hands a request to the first registered route that matches.     *)
Dispatch(segment) ==
  GetRoutes[CHOOSE i \in 1..Len(GetRoutes) :
              /\ RouteMatches(GetRoutes[i], segment)
              /\ \A j \in 1..(i - 1) : ~RouteMatches(GetRoutes[j], segment)]

(* payments.filter(p => p.status === status).length                        *)
CountStatus(status) ==
  Cardinality({i \in 1..Len(payments) : payments[i].status = status})

(* The sum of the amounts of the first n payments that are 'completed'.    *)
RECURSIVE SumCompleted(_)
SumCompleted(n) ==
  IF n = 0 THEN 0
  ELSE SumCompleted(n - 1)
         + (IF payments[n].status = "completed" THEN payments[n].amount ELSE 0)

(* The stats object of the /payments/stats handler.                        *)
PaymentStats ==
  [total_payments |-> Len(payments),
   completed |-> CountStatus("completed"), pending |-> CountStatus("pending"),
   failed |-> CountStatus("failed"), timeout |-> CountStatus("timeout"),
   total_amount |-> SumCompleted(Len(payments))]

(* GET /payments/stats: answered by the handler of the route it is         *)
(* dispatched to.                                                          *)
GetStatsRequest(k) ==
  /\ program = "server"
  /\ NextChk(k)
  /\ chk' = [chk EXCEPT ![k] =
       IF Dispatch(StatsSegment) = "/payments/:id"
         THEN Respond(@, GetPaymentReply(StatsSegment).code,
                      GetPaymentReply(StatsSegment))
         ELSE Respond(@, 200, [NoReply EXCEPT !.success = TRUE,
                                              !.stats = Some(PaymentStats)])]
  /\ UNCHANGED <<program, now, payments, saved, writeFailures, balances, credits,
                 receipts, gateway, stk, pay>>

(* The body of the check-status success response.                          *)
CheckStatusBody(p, s) ==
  [NoReply EXCEPT !.success = TRUE, !.payment_id = Some(p.id),
                  !.reference = Some(p.reference),
                  !.checkout_request_id = p.checkout_request_id,
                  !.transaction_code = p.transaction_code,
                  !.status = Some(p.status), !.lastStatus = Some(s)]

(* POST /payments/:id/check-status up to its await.                        *)
CheckStatusRequest(k, id) ==
  /\ program = "server"
  /\ NextChk(k)
  /\ LET i == FindPayment(id)
         h == [chk[k] EXCEPT !.id = Some(id), !.pidx = i]
     IN IF i = 0
          THEN chk' = [chk EXCEPT ![k] =
                 Respond(h, 404, [NoReply EXCEPT !.message = Some("Payment not found")])]
        ELSE IF payments[i].checkout_request_id = Null
          THEN chk' = [chk EXCEPT ![k] =
                 Respond(h, 400, [NoReply EXCEPT !.message =
                    Some("No checkout request ID found for this payment")])]
        ELSE chk' = [chk EXCEPT ![k] =
                 [h EXCEPT !.pc = "status", !.queries = @ + 1,
                           !.checkout = payments[i].checkout_request_id]]
  /\ UNCHANGED <<program, now, payments, saved, writeFailures, balances, credits,
                 receipts, gateway, stk, pay>>

(* The status query of check-status has settled.                           *)
CheckStatusReturns(k, o) ==
  /\ program = "server"
  /\ chk[k].pc = "status"
  /\ o \in StatusOutcomes
  /\ LET s == checkPaymentStatus(o)
         h == [chk[k] EXCEPT !.statusResult = Some(s)]
         p == payments[h.pidx]
         q == IF s.success /\ s.status = "completed" THEN MarkCompleted(p, s)
              ELSE IF s.success /\ s.status = "failed" THEN MarkFailed(p, s)
              ELSE p
     IN /\ payments' = [payments EXCEPT ![h.pidx] = q]
        /\ chk' = [chk EXCEPT ![k] = Respond(h, 200, CheckStatusBody(q, s))]
  /\ UNCHANGED <<program, now, saved, writeFailures, balances, credits, receipts,
                 gateway, stk, pay>>

ServerNext ==
  \/ \E r \in 1..MaxStk, phone \in PhoneInputs, amount \in AmountInputs :
       StkPushRequest(r, phone, amount)
  \/ \E r \in 1..MaxStk : StkPushInitiateThrows(r)
  \/ \E r \in 1..MaxStk, data \in InitiateData : StkPushInitiateReturns(r, data)
  \/ \E r \in 1..MaxStk, o \in StatusOutcomes : StkPushStatusReturns(r, o)
  \/ \E r \in 1..MaxStk : StkPushDelayElapses(r)
  \/ \E k \in 1..MaxChk, id \in IdInputs : CheckStatusRequest(k, id)
  \/ \E k \in 1..MaxChk, o \in StatusOutcomes : CheckStatusReturns(k, o)
  \/ \E k \in 1..MaxChk, id \in IdInputs : GetPaymentRequest(k, id)
  \/ \E k \in 1..MaxChk : GetStatsRequest(k)

---------------------------------------------------------------------------
(* src/unnamed/part_001: the payments list is written to payments.json.    *)

(* A savePayments that writes nothing.                                     *)
savePaymentsSkipped(ps, ok) == saved

(* savePayments(): the content of payments.json after the call; ok is      *)
(* whether fs.writeFileSync succeeded (its error is caught and logged).    *)
savePayments(ps, ok) == IF ok THEN ps ELSE saved

(* A write may fail while the run's failures are not used up.              *)
WriteOutcome(ok) == ok \/ writeFailures < MaxWriteFailures

(* POST /stkpush up to its first await: validation, the record, its save,  *)
(* and the initiate call.                                                  *)
FileStkPushRequest(r, phone, amount, ok) ==
  /\ program = "file"
  /\ WriteOutcome(ok)
  /\ NextStk(r)
  /\ LET v == StkPushValidation(phone, amount)
         h == [stk[r] EXCEPT !.phone = phone, !.amount = amount]
         id == generatePaymentId(Len(payments) + 1)
         ps == Append(payments, NewPayment(id, phone, amount, OrderReference))
     IN IF v # Null
          THEN /\ stk' = [stk EXCEPT ![r] =
                    Respond(h, 400, [NoReply EXCEPT !.message = v])]
               /\ ok
               /\ UNCHANGED <<payments, saved, writeFailures>>
          ELSE /\ payments' = ps
               /\ saved' = savePayments(ps, ok)
               /\ writeFailures' = writeFailures + (IF ok THEN 0 ELSE 1)
               /\ stk' = [stk EXCEPT ![r] =
                    [h EXCEPT !.pc = "initiate", !.reference = Some(OrderReference),
                              !.pidx = Len(payments) + 1, !.initiates = @ + 1]]
  /\ UNCHANGED <<program, now, balances, credits, receipts, gateway, chk, pay>>

(* The catch of POST /stkpush: the initiate call has thrown.               *)
FileStkPushInitiateThrows(r) ==
  /\ program = "file"
  /\ stk[r].pc = "initiate"
  /\ stk' = [stk EXCEPT ![r] =
        Respond(@, 500, [NoReply EXCEPT !.message = Some("Internal server error"),
                                        !.error = Some("Network Error")])]
  /\ UNCHANGED <<program, now, payments, saved, writeFailures, balances, credits,
                 receipts, gateway, chk, pay>>

(* The initiate call has answered.                                         *)
FileStkPushInitiateReturns(r, data, ok) ==
  /\ program = "file"
  /\ WriteOutcome(ok)
  /\ stk[r].pc = "initiate"
  /\ data \in InitiateData
  /\ LET h == stk[r]
         p == payments[h.pidx]
     IN IF ~data.success
          THEN LET q == MarkInitiateFailed(p, data)
                   ps == [payments EXCEPT ![h.pidx] = q]
               IN /\ payments' = ps
                  /\ saved' = savePayments(ps, ok)
                  /\ stk' = [stk EXCEPT ![r] =
                       Respond(h, 400,
                         [NoReply EXCEPT !.message = q.error_message,
                                         !.payment_id = Some(p.id)])]
                  /\ UNCHANGED gateway
          ELSE LET ps == [payments EXCEPT ![h.pidx] =
                     [p EXCEPT !.checkout_request_id = data.checkout_request_id]]
               IN /\ payments' = ps
                  /\ saved' = savePayments(ps, ok)
                  /\ stk' = [stk EXCEPT ![r] =
                       [h EXCEPT !.pc = "status",
                                 !.checkout = data.checkout_request_id,
                                 !.attempt = 0, !.queries = @ + 1]]
                  /\ gateway' = GatewayAccepts(h.phone, h.amount)
  /\ writeFailures' = writeFailures + (IF ok THEN 0 ELSE 1)
  /\ UNCHANGED <<program, now, balances, credits, receipts, chk, pay>>

(* A status query of the loop has settled: a terminal answer ends the      *)
(* request; any other is followed by attempt++ and, while attempt < 24,    *)
(* the 5 s timer, else at once by the timeout write and response.          *)
FileStkPushStatusReturns(r, o, ok) ==
  /\ program = "file"
  /\ WriteOutcome(ok)
  /\ stk[r].pc = "status"
  /\ o \in StatusOutcomes
  /\ LET s == checkPaymentStatus(o)
         h == [stk[r] EXCEPT !.statusResult = Some(s)]
         p == payments[h.pidx]
     IN IF s.success /\ s.status = "completed"
          THEN LET ps == [payments EXCEPT ![h.pidx] = MarkCompleted(p, s)]
               IN /\ payments' = ps
                  /\ saved' = savePayments(ps, ok)
                  /\ writeFailures' = writeFailures + (IF ok THEN 0 ELSE 1)
                  /\ stk' = [stk EXCEPT ![r] =
                       Respond(h, 200,
                         [StkBody(h, p, TRUE, "Payment completed successfully")
                            EXCEPT !.transaction_code = s.transaction_code])]
        ELSE IF s.success /\ s.status = "failed"
          THEN LET q == MarkFailed(p, s)
                   ps == [payments EXCEPT ![h.pidx] = q]
               IN /\ payments' = ps
                  /\ saved' = savePayments(ps, ok)
                  /\ writeFailures' = writeFailures + (IF ok THEN 0 ELSE 1)
                  /\ stk' = [stk EXCEPT ![r] =
                       Respond(h, 200, StkBody(h, p, FALSE, q.error_message[1]))]
        ELSE IF h.attempt + 1 < maxAttempts
          THEN /\ stk' = [stk EXCEPT ![r] =
                    [h EXCEPT !.attempt = @ + 1, !.pc = "delay", !.delays = @ + 1]]
               /\ ok
               /\ UNCHANGED <<payments, saved, writeFailures>>
        ELSE LET ps == [payments EXCEPT ![h.pidx] = MarkTimeout(p)]
             IN /\ payments' = ps
                /\ saved' = savePayments(ps, ok)
                /\ writeFailures' = writeFailures + (IF ok THEN 0 ELSE 1)
                /\ stk' = [stk EXCEPT ![r] =
                     Respond(h, 200,
                       [StkBody(h, p, FALSE,
                          "Payment status check timeout. Please check manually.")
                          EXCEPT !.lastStatus = h.statusResult])]
  /\ UNCHANGED <<program, now, balances, credits, receipts, gateway, chk, pay>>

(* The 5 s timer has fired: it was set with attempt < 24, so the loop      *)
(* makes its next status query.                                            *)
FileStkPushDelayElapses(r) ==
  /\ program = "file"
  /\ stk[r].pc = "delay"
  /\ stk[r].attempt < maxAttempts
  /\ stk' = [stk EXCEPT ![r] = [@ EXCEPT !.pc = "status", !.queries = @ + 1]]
  /\ UNCHANGED <<program, now, payments, saved, writeFailures, balances, credits,
                 receipts, gateway, chk, pay>>

(* POST /payments/:id/check-status up to its await.                        *)
FileCheckStatusRequest(k, id) ==
  /\ program = "file"
  /\ NextChk(k)
  /\ LET i == FindPayment(id)
         h == [chk[k] EXCEPT !.id = Some(id), !.pidx = i]
     IN IF i = 0
          THEN chk' = [chk EXCEPT ![k] =
                 Respond(h, 404, [NoReply EXCEPT !.message = Some("Payment not found")])]
        ELSE IF payments[i].checkout_request_id = Null
          THEN chk' = [chk EXCEPT ![k] =
                 Respond(h, 400, [NoReply EXCEPT !.message =
                    Some("No checkout request ID found for this payment")])]
        ELSE chk' = [chk EXCEPT ![k] =
                 [h EXCEPT !.pc = "status", !.queries = @ + 1,
                           !.checkout = payments[i].checkout_request_id]]
  /\ UNCHANGED <<program, now, payments, saved, writeFailures, balances, credits,
                 receipts, gateway, stk, pay>>

(* The status query of check-status has settled; the list is saved only    *)
(* when the status was written.                                            *)
FileCheckStatusReturns(k, o, ok) ==
  /\ program = "file"
  /\ WriteOutcome(ok)
  /\ chk[k].pc = "status"
  /\ o \in StatusOutcomes
  /\ LET s == checkPaymentStatus(o)
         h == [chk[k] EXCEPT !.statusResult = Some(s)]
         p == payments[h.pidx]
         written == s.success /\ s.status \in {"completed", "failed"}
         q == IF s.success /\ s.status = "completed" THEN MarkCompleted(p, s)
              ELSE IF s.success /\ s.status = "failed" THEN MarkFailed(p, s)
              ELSE p
         ps == [payments EXCEPT ![h.pidx] = q]
     IN /\ payments' = ps
        /\ IF written
             THEN /\ saved' = savePayments(ps, ok)
                  /\ writeFailures' = writeFailures + (IF ok THEN 0 ELSE 1)
             ELSE /\ ok
                  /\ UNCHANGED <<saved, writeFailures>>
        /\ chk' = [chk EXCEPT ![k] = Respond(h, 200, CheckStatusBody(q, s))]
  /\ UNCHANGED <<program, now, balances, credits, receipts, gateway, stk, pay>>

(* setInterval(savePayments, 30000), and the SIGTERM and SIGINT saves.     *)
AutoSave(ok) ==
  /\ program = "file"
  /\ WriteOutcome(ok)
  /\ saved' = savePayments(payments, ok)
  /\ writeFailures' = writeFailures + (IF ok THEN 0 ELSE 1)
  /\ UNCHANGED <<program, now, payments, balances, credits, receipts, gateway,
                 stk, chk, pay>>

FileNext ==
  \/ \E r \in 1..MaxStk, phone \in PhoneInputs, amount \in AmountInputs,
        ok \in BOOLEAN : FileStkPushRequest(r, phone, amount, ok)
  \/ \E r \in 1..MaxStk : FileStkPushInitiateThrows(r)
  \/ \E r \in 1..MaxStk, data \in InitiateData, ok \in BOOLEAN :
       FileStkPushInitiateReturns(r, data, ok)
  \/ \E r \in 1..MaxStk, o \in StatusOutcomes, ok \in BOOLEAN :
       FileStkPushStatusReturns(r, o, ok)
  \/ \E r \in 1..MaxStk : FileStkPushDelayElapses(r)
  \/ \E k \in 1..MaxChk, id \in IdInputs : FileCheckStatusRequest(k, id)
  \/ \E k \in 1..MaxChk, o \in StatusOutcomes, ok \in BOOLEAN :
       FileCheckStatusReturns(k, o, ok)
  \/ \E ok \in BOOLEAN : AutoSave(ok)

---------------------------------------------------------------------------
(* src/unnamed/part_000, lines 1-245: balances in memory, no payment       *)
(* records.                                                                *)

NoBalances == [x \in {} |-> 0]

(* creditBalance(phone, amount): the balances object after the call.       *)
creditBalance(b, phone, amount) ==
  [x \in DOMAIN b \cup {phone} |->
     IF x = phone
       THEN (IF phone \in DOMAIN b THEN b[phone] ELSE 0) + amount
       ELSE b[x]]

(* getBalance(phone): balances[phone] || 0                                 *)
getBalance(b, phone) == IF phone \in DOMAIN b THEN b[phone] ELSE 0

(* The creditBalance calls made on behalf of a checkout_request_id.        *)
CreditsOf(c) == IF c \in DOMAIN credits THEN credits[c] ELSE 0
Credited(c) ==
  [x \in DOMAIN credits \cup {c} |-> IF x = c THEN CreditsOf(c) + 1 ELSE credits[x]]

(* The body of the loop's responses.                                       *)
BalBody(h, success, message, status) ==
  [NoReply EXCEPT !.success = success, !.message = Some(message),
                  !.reference = h.reference, !.checkout_request_id = h.checkout,
                  !.status = Some(status)]

(* The same segment crediting the balance when the request is made,       *)
(* before the gateway has reported anything.                               *)
BalStkPushRequestCreditsEarly(r, phone, amount) ==
  /\ program = "balance"
  /\ NextStk(r)
  /\ LET h == [stk[r] EXCEPT !.phone = phone, !.amount = amount]
     IN IF phone = <<>> \/ amount = 0
          THEN /\ stk' = [stk EXCEPT ![r] =
                    Respond(h, 400, [NoReply EXCEPT !.message =
                                       Some("Phone and amount are required")])]
               /\ UNCHANGED balances
          ELSE /\ stk' = [stk EXCEPT ![r] =
                    [h EXCEPT !.pc = "initiate", !.reference = Some(OrderReference),
                              !.initiates = @ + 1]]
               /\ balances' = creditBalance(balances, phone, amount)
  /\ UNCHANGED <<program, now, payments, saved, writeFailures, credits,
                 receipts, gateway, chk, pay>>

(* POST /stkpush up to its first await: the only check is that phone and   *)
(* amount are truthy; then the initiate call.                              *)
BalStkPushRequest(r, phone, amount) ==
  /\ program = "balance"
  /\ NextStk(r)
  /\ LET h == [stk[r] EXCEPT !.phone = phone, !.amount = amount]
     IN IF phone = <<>> \/ amount = 0
          THEN stk' = [stk EXCEPT ![r] =
                 Respond(h, 400, [NoReply EXCEPT !.message =
                                    Some("Phone and amount are required")])]
          ELSE stk' = [stk EXCEPT ![r] =
                 [h EXCEPT !.pc = "initiate", !.reference = Some(OrderReference),
                           !.initiates = @ + 1]]
  /\ UNCHANGED <<program, now, payments, saved, writeFailures, balances, credits,
                 receipts, gateway, chk, pay>>

(* The catch of POST /stkpush: the initiate call or a status query has     *)
(* thrown (the loop calls axios.post itself, inside the handler's try).    *)
BalStkPushThrows(r) ==
  /\ program = "balance"
  /\ stk[r].pc \in {"initiate", "status"}
  /\ stk' = [stk EXCEPT ![r] =
        Respond(@, 500, [NoReply EXCEPT !.message = Some("Internal server error")])]
  /\ UNCHANGED <<program, now, payments, saved, writeFailures, balances, credits,
                 receipts, gateway, chk, pay>>

(* The initiate call has answered: a rejection is passed on as it is.      *)
BalStkPushInitiateReturns(r, data) ==
  /\ program = "balance"
  /\ stk[r].pc = "initiate"
  /\ data \in InitiateData
  /\ LET h == stk[r]
     IN IF ~data.success
          THEN /\ stk' = [stk EXCEPT ![r] =
                    Respond(h, 400, [NoReply EXCEPT !.message = data.message])]
               /\ UNCHANGED gateway
          ELSE /\ stk' = [stk EXCEPT ![r] =
                    [h EXCEPT !.pc = "status",
                              !.checkout = data.checkout_request_id,
                              !.attempt = 0, !.queries = @ + 1]]
               /\ gateway' = GatewayAccepts(h.phone, h.amount)
  /\ UNCHANGED <<program, now, payments, saved, writeFailures, balances, credits,
                 receipts, chk, pay>>

(* A status query of the loop has answered.                                *)
BalStkPushStatusReturns(r, s) ==
  /\ program = "balance"
  /\ stk[r].pc = "status"
  /\ s \in StatusData
  /\ LET h == [stk[r] EXCEPT !.statusResult = Some(s)]
         b == creditBalance(balances, h.phone, h.amount)
     IN IF s.success /\ s.status = "completed"
          THEN /\ balances' = b
               /\ credits' = Credited(h.checkout[1])
               /\ stk' = [stk EXCEPT ![r] =
                    Respond(h, 200,
                      [BalBody(h, TRUE, "Payment completed", "completed")
                         EXCEPT !.transaction_code = s.transaction_code,
                                !.balance = Some(getBalance(b, h.phone))])]
        ELSE IF s.success /\ s.status = "failed"
          THEN /\ stk' = [stk EXCEPT ![r] =
                    Respond(h, 200, BalBody(h, FALSE, "Payment failed", "failed"))]
               /\ UNCHANGED <<balances, credits>>
        ELSE /\ stk' = [stk EXCEPT ![r] =
                  [h EXCEPT !.attempt = @ + 1, !.pc = "delay", !.delays = @ + 1]]
             /\ UNCHANGED <<balances, credits>>
  /\ UNCHANGED <<program, now, payments, saved, writeFailures, receipts, gateway,
                 chk, pay>>

(* The 5 s timer has fired.                                                *)
BalStkPushDelayElapses(r) ==
  /\ program = "balance"
  /\ stk[r].pc = "delay"
  /\ LET h == stk[r]
     IN IF h.attempt < maxAttempts
          THEN stk' = [stk EXCEPT ![r] =
                 [h EXCEPT !.pc = "status", !.queries = @ + 1]]
          ELSE stk' = [stk EXCEPT ![r] =
                 Respond(h, 200,
                   [BalBody(h, FALSE,
                      "Payment status check timeout - still pending", "pending")
                      EXCEPT !.lastStatus = h.statusResult])]
  /\ UNCHANGED <<program, now, payments, saved, writeFailures, balances, credits,
                 receipts, gateway, chk, pay>>

(* The checkout_request_ids a client may send: none, those the gateway     *)
(* has handed out, and one it has not.                                     *)
UnknownCheckout == 0
CheckoutInputs == {Null} \cup {Some(c) : c \in 0..Len(gateway)}

(* What the gateway may answer about a checkout_request_id: anything for   *)
(* one it handed out, no success for another.                              *)
StatusDataFor(c) ==
  IF c \in 1..Len(gateway) THEN StatusData ELSE {d \in StatusData : ~d.success}

(* POST /transaction/status up to its await.                               *)
TransactionStatusRequest(k, c, phone, amount) ==
  /\ program = "balance"
  /\ NextChk(k)
  /\ LET h == [chk[k] EXCEPT !.checkout = c, !.phone = phone, !.amount = amount]
     IN IF c = Null
          THEN chk' = [chk EXCEPT ![k] =
                 Respond(h, 400, [NoReply EXCEPT !.message =
                                    Some("checkout_request_id is required")])]
          ELSE chk' = [chk EXCEPT ![k] = [h EXCEPT !.pc = "status", !.queries = @ + 1]]
  /\ UNCHANGED <<program, now, payments, saved, writeFailures, balances, credits,
                 receipts, gateway, stk, pay>>

(* The catch of POST /transaction/status: the status query has thrown.     *)
TransactionStatusThrows(k) ==
  /\ program = "balance"
  /\ chk[k].pc = "status"
  /\ chk' = [chk EXCEPT ![k] =
        Respond(@, 500, [NoReply EXCEPT !.message = Some("Internal server error")])]
  /\ UNCHANGED <<program, now, payments, saved, writeFailures, balances, credits,
                 receipts, gateway, stk, pay>>

(* The status query of POST /transaction/status has answered.              *)
TransactionStatusReturns(k, s) ==
  /\ program = "balance"
  /\ chk[k].pc = "status"
  /\ s \in StatusDataFor(chk[k].checkout[1])
  /\ LET h == chk[k]
         credit == s.success /\ s.status = "completed"
                   /\ h.phone # <<>> /\ h.amount # 0
         b == IF credit THEN creditBalance(balances, h.phone, h.amount)
              ELSE balances
     IN /\ balances' = b
        /\ credits' = IF credit THEN Credited(h.checkout[1]) ELSE credits
        /\ IF s.success
             THEN chk' = [chk EXCEPT ![k] =
                    Respond(h, 200,
                      [NoReply EXCEPT
                         !.success = TRUE, !.status = Some(s.status),
                         !.transaction_code = s.transaction_code,
                         !.checkout_request_id = h.checkout,
                         !.balance = IF h.phone # <<>>
                                       THEN Some(getBalance(b, h.phone)) ELSE Null,
                         !.message = Some("Transaction is " \o s.status)])]
             ELSE chk' = [chk EXCEPT ![k] =
                    Respond(h, 200,
                      [NoReply EXCEPT
                         !.message = Some("Failed to check transaction status"),
                         !.checkout_request_id = h.checkout])]
  /\ UNCHANGED <<program, now, payments, saved, writeFailures, receipts, gateway,
                 stk, pay>>

(* POST /balance/check: the balance of the phone, 0 when it has none.      *)
BalanceCheckRequest(k, phone) ==
  /\ program = "balance"
  /\ NextChk(k)
  /\ IF phone = <<>>
       THEN chk' = [chk EXCEPT ![k] =
              Respond(@, 400, [NoReply EXCEPT !.message =
                                 Some("Phone number is required")])]
       ELSE chk' = [chk EXCEPT ![k] =
              Respond(@, 200,
                [NoReply EXCEPT !.success = TRUE,
                                !.balance = Some(getBalance(balances, phone)),
                                !.message = Some("Balance retrieved successfully")])]
  /\ UNCHANGED <<program, now, payments, saved, writeFailures, balances, credits,
                 receipts, gateway, stk, pay>>

BalanceNext ==
  \/ \E r \in 1..MaxStk, phone \in BalPhoneInputs, amount \in BalAmountInputs :
       BalStkPushRequest(r, phone, amount)
  \/ \E r \in 1..MaxStk : BalStkPushThrows(r)
  \/ \E r \in 1..MaxStk, data \in InitiateData : BalStkPushInitiateReturns(r, data)
  \/ \E r \in 1..MaxStk, s \in StatusData : BalStkPushStatusReturns(r, s)
  \/ \E r \in 1..MaxStk : BalStkPushDelayElapses(r)
  \/ \E k \in 1..MaxTxs, c \in CheckoutInputs, phone \in TxPhoneInputs,
        amount \in TxAmountInputs : TransactionStatusRequest(k, c, phone, amount)
  \/ \E k \in 1..MaxTxs : TransactionStatusThrows(k)
  \/ \E k \in 1..MaxTxs, s \in StatusData : TransactionStatusReturns(k, s)
  \/ \E k \in 1..MaxTxs, phone \in TxPhoneInputs : BalanceCheckRequest(k, phone)

---------------------------------------------------------------------------
(* src/unnamed/part_002: the relay without any store.                      *)

(* POST /stkpush up to its first await.                                    *)
MinStkPushRequest(r, phone, amount) ==
  /\ program = "minimal"
  /\ NextStk(r)
  /\ LET h == [stk[r] EXCEPT !.phone = phone, !.amount = amount]
     IN IF phone = <<>> \/ amount = 0
          THEN stk' = [stk EXCEPT ![r] =
                 Respond(h, 400, [NoReply EXCEPT !.message =
                                    Some("Phone and amount are required")])]
          ELSE stk' = [stk EXCEPT ![r] =
                 [h EXCEPT !.pc = "initiate", !.reference = Some(OrderReference),
                           !.initiates = @ + 1]]
  /\ UNCHANGED <<program, now, payments, saved, writeFailures, balances, credits,
                 receipts, gateway, chk, pay>>

(* The catch of POST /stkpush: the initiate call or a status query has     *)
(* thrown.                                                                 *)
MinStkPushThrows(r) ==
  /\ program = "minimal"
  /\ stk[r].pc \in {"initiate", "status"}
  /\ stk' = [stk EXCEPT ![r] =
        Respond(@, 500, [NoReply EXCEPT !.message = Some("Internal server error")])]
  /\ UNCHANGED <<program, now, payments, saved, writeFailures, balances, credits,
                 receipts, gateway, chk, pay>>

(* The initiate call has answered.                                         *)
MinStkPushInitiateReturns(r, data) ==
  /\ program = "minimal"
  /\ stk[r].pc = "initiate"
  /\ data \in InitiateData
  /\ LET h == stk[r]
     IN IF ~data.success
          THEN /\ stk' = [stk EXCEPT ![r] =
                    Respond(h, 400, [NoReply EXCEPT !.message = data.message])]
               /\ UNCHANGED gateway
          ELSE /\ stk' = [stk EXCEPT ![r] =
                    [h EXCEPT !.pc = "status",
                              !.checkout = data.checkout_request_id,
                              !.attempt = 0, !.queries = @ + 1]]
               /\ gateway' = GatewayAccepts(h.phone, h.amount)
  /\ UNCHANGED <<program, now, payments, saved, writeFailures, balances, credits,
                 receipts, chk, pay>>

(* A status query of the loop has answered.                                *)
MinStkPushStatusReturns(r, s) ==
  /\ program = "minimal"
  /\ stk[r].pc = "status"
  /\ s \in StatusData
  /\ LET h == [stk[r] EXCEPT !.statusResult = Some(s)]
     IN IF s.success /\ s.status = "completed"
          THEN stk' = [stk EXCEPT ![r] =
                 Respond(h, 200,
                   [NoReply EXCEPT !.success = TRUE,
                                   !.message = Some("Payment completed"),
                                   !.transaction_code = s.transaction_code])]
        ELSE IF s.success /\ s.status = "failed"
          THEN stk' = [stk EXCEPT ![r] =
                 Respond(h, 200, [NoReply EXCEPT !.message = Some("Payment failed")])]
        ELSE stk' = [stk EXCEPT ![r] =
                 [h EXCEPT !.attempt = @ + 1, !.pc = "delay", !.delays = @ + 1]]
  /\ UNCHANGED <<program, now, payments, saved, writeFailures, balances, credits,
                 receipts, gateway, chk, pay>>

(* The 5 s timer has fired.                                                *)
MinStkPushDelayElapses(r) ==
  /\ program = "minimal"
  /\ stk[r].pc = "delay"
  /\ LET h == stk[r]
     IN IF h.attempt < maxAttempts
          THEN stk' = [stk EXCEPT ![r] =
                 [h EXCEPT !.pc = "status", !.queries = @ + 1]]
          ELSE stk' = [stk EXCEPT ![r] =
                 Respond(h, 200,
                   [NoReply EXCEPT !.message = Some("Payment status check timeout"),
                                   !.lastStatus = h.statusResult])]
  /\ UNCHANGED <<program, now, payments, saved, writeFailures, balances, credits,
                 receipts, gateway, chk, pay>>

MinimalNext ==
  \/ \E r \in 1..MaxStk, phone \in PhoneInputs, amount \in AmountInputs :
       MinStkPushRequest(r, phone, amount)
  \/ \E r \in 1..MaxStk : MinStkPushThrows(r)
  \/ \E r \in 1..MaxStk, data \in InitiateData : MinStkPushInitiateReturns(r, data)
  \/ \E r \in 1..MaxStk, s \in StatusData : MinStkPushStatusReturns(r, s)
  \/ \E r \in 1..MaxStk : MinStkPushDelayElapses(r)

---------------------------------------------------------------------------
(* src/unnamed/part_000, lines 247-490: receipts kept in receipts.json.    *)

(* phone.replace(/\D/g, "")                                                *)
RECURSIVE Digits(_)
Digits(p) ==
  IF p = <<>> THEN <<>>
  ELSE (IF IsDigit(Head(p)) THEN <<Head(p)>> ELSE <<>>) \o Digits(Tail(p))

(* formatPhone(phone): the 2547... form of the phone, or Null.             *)
formatPhone(phone) ==
  LET d == Digits(phone)
  IN IF Len(d) = 9 /\ d[1] = 7 THEN Some(<<2, 5, 4>> \o d)
     ELSE IF Len(d) = 10 /\ d[1] = 0 /\ d[2] = 7 THEN Some(<<2, 5, 4>> \o Tail(d))
     ELSE IF Len(d) = 12 /\ d[1] = 2 /\ d[2] = 5 /\ d[3] = 4 THEN Some(d)
     ELSE Null

(* A receipt as POST /pay builds it (loan_amount, customer_name and        *)
(* status_note are left out: nothing reads them).                          *)
Receipt(reference, transaction_id, amount, phone, status) ==
  [reference |-> Some(reference), transaction_id |-> transaction_id,
   transaction_code |-> Null, amount |-> amount, phone |-> phone,
   status |-> status, timestamp |-> now]

(* receipts[reference] = receipt; writeReceipts(receipts)                  *)
writeReceipts(rs, reference, receipt) ==
  [x \in DOMAIN rs \cup {reference} |-> IF x = reference THEN receipt ELSE rs[x]]

(* `ORDER-${Date.now()}`                                                   *)
PayReference == now

(* The body of a POST /pay response that carries a receipt.                *)
PayBody(success, receipt) ==
  [NoReply EXCEPT !.success = success, !.reference = receipt.reference,
                  !.status = Some(receipt.status)]

(* POST /pay up to its await: the phone is formatted, phone and amount     *)
(* are checked, and the initiate call is made.                             *)
PayRequest(q, phone, amount) ==
  /\ program = "receipts"
  /\ NextPay(q)
  /\ LET f == formatPhone(phone)
         h == [pay[q] EXCEPT !.phone = f, !.amount = amount]
     IN IF f = Null
          THEN pay' = [pay EXCEPT ![q] =
                 Respond(h, 400, [NoReply EXCEPT !.error = Some("Invalid phone format")])]
        ELSE IF amount = 0 \/ amount < 1
          THEN pay' = [pay EXCEPT ![q] =
                 Respond(h, 400, [NoReply EXCEPT !.error = Some("Amount must be >= 1")])]
        ELSE pay' = [pay EXCEPT ![q] =
                 [h EXCEPT !.pc = "initiate", !.reference = Some(PayReference),
                           !.initiates = @ + 1]]
  /\ UNCHANGED <<program, now, payments, saved, writeFailures, balances, credits,
                 receipts, gateway, stk, chk>>

(* The initiate call has answered: the receipt is read into the file,      *)
(* "pending" when the gateway accepted and "stk_failed" when it did not.   *)
PayInitiateReturns(q, data) ==
  /\ program = "receipts"
  /\ pay[q].pc = "initiate"
  /\ data \in InitiateData
  /\ LET h == pay[q]
         receipt == IF data.success
                      THEN Receipt(h.reference[1], data.checkout_request_id,
                                   h.amount, h.phone[1], "pending")
                      ELSE Receipt(h.reference[1], Null, h.amount, h.phone[1],
                                   "stk_failed")
     IN /\ receipts' = writeReceipts(receipts, h.reference[1], receipt)
        /\ pay' = [pay EXCEPT ![q] =
             IF data.success
               THEN Respond(h, 200,
                      [PayBody(TRUE, receipt) EXCEPT
                         !.message = Some("STK push sent, check your phone")])
               ELSE Respond(h, 400,
                      [PayBody(FALSE, receipt) EXCEPT
                         !.error = Some(OrElse(data.message,
                                               "Failed to send STK push."))])]
        /\ gateway' = IF data.success THEN GatewayAccepts(h.phone[1], h.amount)
                                       ELSE gateway
  /\ UNCHANGED <<program, now, payments, saved, writeFailures, balances, credits,
                 stk, chk>>

(* The catch of POST /pay: the initiate call has thrown; the "error"       *)
(* receipt is stored under a reference made anew from the clock.           *)
PayInitiateThrows(q) ==
  /\ program = "receipts"
  /\ pay[q].pc = "initiate"
  /\ LET h == pay[q]
         receipt == Receipt(PayReference, Null, h.amount, h.phone[1], "error")
     IN /\ receipts' = writeReceipts(receipts, PayReference, receipt)
        /\ pay' = [pay EXCEPT ![q] =
             Respond(h, 500, [PayBody(FALSE, receipt) EXCEPT
                                !.error = Some("Network Error")])]
  /\ UNCHANGED <<program, now, payments, saved, writeFailures, balances, credits,
                 gateway, stk, chk>>

(* receipts[ref] || {}: the stored receipt, or one without any field.      *)
NoReceipt ==
  [reference |-> Null, transaction_id |-> Null, transaction_code |-> Null,
   amount |-> 0, phone |-> <<>>, status |-> "none", timestamp |-> 0]

(* The bodies of POST /callback: a reference of a stored receipt or one    *)
(* that no receipt has, and a status with or without a transaction_code.   *)
UnknownReference == -1
ReferenceInputs == DOMAIN receipts \cup {UnknownReference}
CallbackInputs ==
  { [status |-> "completed", transaction_code |-> Some(TxnCode)],
    [status |-> "completed", transaction_code |-> Null],
    [status |-> "failed", transaction_code |-> Null],
    [status |-> "pending", transaction_code |-> Null],
    [status |-> "none", transaction_code |-> Null] }

(* The receipt POST /callback stores for a body: "processing" for status   *)
(* 'completed', "cancelled" for every other status.                        *)
CallbackReceipt(existing, data) ==
  IF data.status = "completed"
    THEN [existing EXCEPT !.status = "processing",
                          !.transaction_code = data.transaction_code,
                          !.timestamp = now]
    ELSE [existing EXCEPT !.status = "cancelled", !.timestamp = now]

(* An acknowledgment that reports a failure to the gateway.                *)
CallbackNack ==
  [NoReply EXCEPT !.ResultCode = Some(1), !.ResultDesc = Some("Failed")]

(* res.json({ ResultCode: 0, ResultDesc: "Success" })                      *)
CallbackAck ==
  [NoReply EXCEPT !.ResultCode = Some(0), !.ResultDesc = Some("Success")]

(* POST /callback: no await between reading and writing receipts.json.     *)
Callback(k, ref, data) ==
  /\ program = "receipts"
  /\ NextChk(k)
  /\ LET existing == IF ref \in DOMAIN receipts THEN receipts[ref] ELSE NoReceipt
     IN receipts' = writeReceipts(receipts, ref, CallbackReceipt(existing, data))
  /\ chk' = [chk EXCEPT ![k] = Respond(@, 200, CallbackAck)]
  /\ UNCHANGED <<program, now, payments, saved, writeFailures, balances, credits,
                 gateway, stk, pay>>

(* Twenty-four hours pass on the clock (once in a run).                    *)
DayPasses ==
  /\ program = "receipts"
  /\ now <= MaxClock
  /\ now' = now + ReleaseAfter
  /\ UNCHANGED <<program, payments, saved, writeFailures, balances, credits,
                 receipts, gateway, stk, chk, pay>>

(* A sweep that releases a 'processing' receipt whatever its age.         *)
SweepReceiptAnyAge(r) ==
  IF r.status = "processing" THEN [r EXCEPT !.status = "loan_released"] ELSE r

(* The receipt as the sweep leaves it: 'loan_released' when it is          *)
(* 'processing' and its timestamp is 24 hours old, unchanged otherwise.    *)
SweepReceipt(r) ==
  IF r.status = "processing" /\ now >= r.timestamp + ReleaseAfter
    THEN [r EXCEPT !.status = "loan_released"]
    ELSE r

(* cron.schedule("*/5 * * * *"): the sweep reads receipts.json, releases   *)
(* the loans that are due and writes the file, without an await.           *)
Sweep ==
  /\ program = "receipts"
  /\ receipts' = [x \in DOMAIN receipts |-> SweepReceipt(receipts[x])]
  /\ UNCHANGED <<program, now, payments, saved, writeFailures, balances, credits,
                 gateway, stk, chk, pay>>

ReceiptsNext ==
  \/ \E q \in 1..MaxPay, phone \in PayPhoneInputs, amount \in PayAmountInputs :
       PayRequest(q, phone, amount)
  \/ \E q \in 1..MaxPay, data \in InitiateData : PayInitiateReturns(q, data)
  \/ \E q \in 1..MaxPay : PayInitiateThrows(q)
  \/ \E k \in 1..MaxCallbacks, ref \in ReferenceInputs, data \in CallbackInputs :
       Callback(k, ref, data)
  \/ DayPasses
  \/ Sweep

---------------------------------------------------------------------------
(* The initial state: the program that runs, nothing stored, no request    *)
(* made.                                                                   *)
InitOf(progs) ==
  /\ program \in progs
  /\ now = 0
  /\ payments = <<>>
  /\ saved = <<>>
  /\ writeFailures = 0
  /\ balances = NoBalances
  /\ credits = NoBalances
  /\ receipts = NoBalances
  /\ gateway = <<>>
  /\ stk = [r \in 1..MaxStk |-> IdleStk]
  /\ chk = [k \in 1..ChkSlots |-> IdleChk]
  /\ pay = [q \in 1..MaxPay |-> IdlePay]

InitServer == InitOf({"server"})
NextServer == Tick \/ ServerNext
SpecServer == InitServer /\ [][NextServer]_vars

InitFile == InitOf({"file"})
NextFile == Tick \/ FileNext
SpecFile == InitFile /\ [][NextFile]_vars

InitBalance == InitOf({"balance"})
NextBalance == Tick \/ BalanceNext
SpecBalance == InitBalance /\ [][NextBalance]_vars

InitMinimal == InitOf({"minimal"})
NextMinimal == Tick \/ MinimalNext
SpecMinimal == InitMinimal /\ [][NextMinimal]_vars

InitReceipts == InitOf({"receipts"})
NextReceipts == Tick \/ ReceiptsNext
SpecReceipts == InitReceipts /\ [][NextReceipts]_vars

(* Any of the five programs.                                               *)
Init == InitOf(Programs)
Next == Tick \/ ServerNext \/ FileNext \/ BalanceNext \/ MinimalNext \/ ReceiptsNext
Spec == Init /\ [][Next]_vars

(* The two programs that keep payment records.                             *)
InitPayments == InitOf({"server", "file"})
NextPayments == Tick \/ ServerNext \/ FileNext
SpecPayments == InitPayments /\ [][NextPayments]_vars

(* What the event loop does for a request without any new client request:  *)
(* a pending gateway call settles (answers or throws), a timer fires.      *)
StkPushSettles(r) ==
  \/ StkPushInitiateThrows(r)
  \/ \E data \in InitiateData : StkPushInitiateReturns(r, data)
  \/ \E o \in StatusOutcomes : StkPushStatusReturns(r, o)
  \/ StkPushDelayElapses(r)

CheckStatusSettles(k) == \E o \in StatusOutcomes : CheckStatusReturns(k, o)

MinStkPushSettles(r) ==
  \/ MinStkPushThrows(r)
  \/ \E data \in InitiateData : MinStkPushInitiateReturns(r, data)
  \/ \E s \in StatusData : MinStkPushStatusReturns(r, s)
  \/ MinStkPushDelayElapses(r)

(* server.js and the minimal relay, with every gateway call settling and   *)
(* every timer firing.                                                     *)
InitRelay == InitOf({"server", "minimal"})
NextRelay == Tick \/ ServerNext \/ MinimalNext
FairRelay ==
  /\ \A r \in 1..MaxStk : WF_vars(StkPushSettles(r))
  /\ \A r \in 1..MaxStk : WF_vars(MinStkPushSettles(r))
  /\ \A k \in 1..MaxChk : WF_vars(CheckStatusSettles(k))
SpecRelayLive == InitRelay /\ [][NextRelay]_vars /\ FairRelay

(* The two programs with a one-shot status request cited for it:          *)
(* check-status of server.js and /transaction/status of the balance server.*)
InitOneShot == InitOf({"server", "balance"})
NextOneShot == Tick \/ ServerNext \/ BalanceNext
SpecOneShot == InitOneShot /\ [][NextOneShot]_vars

---------------------------------------------------------------------------
(* The claims.                                                             *)

Polling(h) == h.pc \in {"status", "delay"}

(* C1: once a Payment's status is 'completed' it never changes again,      *)
(* whatever the poll loop of /stkpush and check-status requests for the    *)
(* same payment do afterwards.                                             *)
C1_CompletedIsFinal ==
  [][\A i \in 1..Len(payments) :
       payments[i].status = "completed" => payments'[i].status = "completed"]_vars

(* C2: a Payment whose status is 'failed' or 'timeout' keeps its status,   *)
(* transaction_code and error_message forever, also when a later           *)
(* check-status is answered 'completed'.                                   *)
C2_FailedOrTimeoutIsFinal ==
  [][\A i \in 1..Len(payments) :
       payments[i].status \in {"failed", "timeout"} =>
         /\ payments'[i].status = payments[i].status
         /\ payments'[i].transaction_code = payments[i].transaction_code
         /\ payments'[i].error_message = payments[i].error_message]_vars

(* C3: for every checkout_request_id the balance is credited at most once, *)
(* however many /transaction/status requests observe it 'completed' after  *)
(* the poll loop has credited it.                                          *)
C3_CreditedAtMostOnce == \A c \in DOMAIN credits : credits[c] <= 1

(* A /transaction/status request that was answered 'completed' for         *)
(* checkout_request_id c.                                                  *)
SawCompleted(k, c) ==
  /\ chk[k].pc = "done"
  /\ chk[k].res.success
  /\ chk[k].res.status = Some("completed")
  /\ chk[k].res.checkout_request_id = c

(* C4: when a /transaction/status request observes 'completed' while the   *)
(* poll loop for the same checkout_request_id is running, and the loop     *)
(* then observes 'completed' too, the balance has been credited exactly    *)
(* once for that payment.                                                  *)
C4_ConcurrentCompletedCreditsOnce ==
  [][\A r \in 1..MaxStk, k \in 1..MaxTxs :
       ( /\ stk[r].pc = "status"
         /\ SawCompleted(k, stk[r].checkout)
         /\ stk'[r].pc = "done"
         /\ stk'[r].res.success )
       => credits'[stk[r].checkout[1]] = 1]_vars

(* C5: a /stkpush body that fails validation (phone or amount missing,     *)
(* phone not 2547 and 8 digits, amount <= 0 or > 300000) is rejected       *)
(* before anything happens: no handler is past validation with such a      *)
(* body (so no gateway call is made and no balance credited for it) and    *)
(* no Payment record holds one.                                            *)
C5_InvalidBodyRejected ==
  /\ \A r \in 1..MaxStk :
       stk[r].pc \notin {"idle", "done"} =>
         StkPushValidation(stk[r].phone, stk[r].amount) = Null
  /\ \A i \in 1..Len(payments) :
       StkPushValidation(payments[i].phone, payments[i].amount) = Null

(* C6: whenever an initiate call is issued, a record of that request with  *)
(* status 'pending' and no checkout id is already in the store (and, in    *)
(* the file-backed program, in payments.json when its write succeeded).    *)
C6_RecordBeforeInitiate ==
  [][/\ \A r \in 1..MaxStk :
          (stk[r].pc # "initiate" /\ stk'[r].pc = "initiate") =>
            /\ stk'[r].pidx \in 1..Len(payments')
            /\ payments'[stk'[r].pidx].status = "pending"
            /\ payments'[stk'[r].pidx].checkout_request_id = Null
            /\ payments'[stk'[r].pidx].reference = stk'[r].reference[1]
     /\ \A q \in 1..MaxPay :
          (pay[q].pc # "initiate" /\ pay'[q].pc = "initiate") =>
            /\ pay'[q].reference[1] \in DOMAIN receipts'
            /\ receipts'[pay'[q].reference[1]].status = "pending"
            /\ receipts'[pay'[q].reference[1]].transaction_id = Null]_vars

(* A payment whose initiate call the gateway rejected.                     *)
InitiateRejected(p) == p.status = "failed" /\ p.checkout_request_id = Null

(* C7: when the gateway answers the initiate call with success=false, the  *)
(* Payment becomes 'failed' with an error_message, the caller gets a       *)
(* failure response (400, success=false), and no status query is made for  *)
(* that payment, neither by the request nor by a later check-status.       *)
C7_InitiateRejected ==
  [][/\ \A r \in 1..MaxStk :
          (stk[r].pc = "initiate" /\ stk'[r].pc = "done" /\ stk'[r].res.code # 500) =>
            /\ payments'[stk[r].pidx].status = "failed"
            /\ payments'[stk[r].pidx].error_message # Null
            /\ payments'[stk[r].pidx].checkout_request_id = Null
            /\ stk'[r].res.code = 400
            /\ ~stk'[r].res.success
            /\ stk'[r].res.message = payments'[stk[r].pidx].error_message
            /\ stk[r].queries = 0
     /\ \A i \in 1..Len(payments) :
          InitiateRejected(payments[i]) =>
            /\ InitiateRejected(payments'[i])
            /\ \A r \in 1..MaxStk :
                 stk'[r].pidx = i => stk'[r].queries = 0
            /\ \A k \in 1..MaxChk :
                 chk'[k].pidx = i => chk'[k].queries = 0]_vars

(* C7's case: a request answered 400 for a rejected initiate call, and a   *)
(* check-status for its payment answered without a query.                  *)
C7_Witness ==
  \E r \in 1..MaxStk, k \in 1..MaxChk :
    /\ stk[r].pc = "done"
    /\ stk[r].res.code = 400
    /\ stk[r].res.payment_id # Null
    /\ \E i \in 1..Len(payments) :
         /\ Some(payments[i].id) = stk[r].res.payment_id
         /\ InitiateRejected(payments[i])
         /\ payments[i].error_message = Some("STK Push initiation failed")
    /\ chk[k].pc = "done"
    /\ chk[k].res.code = 400

(* C8: on the first poll answer 'completed', /stkpush sets the Payment to  *)
(* 'completed' with the gateway's transaction_code, credits the phone's    *)
(* balance by the amount once, answers success=true and makes no further   *)
(* status query.  (The transaction record the claim also asks for has no   *)
(* counterpart in the state of any of the programs.)                       *)
C8_CompletedBranch ==
  [][\A r \in 1..MaxStk :
       (stk[r].pc = "status" /\ stk'[r].pc = "done" /\ stk'[r].res.success) =>
         /\ payments'[stk[r].pidx].status = "completed"
         /\ payments'[stk[r].pidx].transaction_code = stk'[r].res.transaction_code
         /\ stk'[r].queries = 0
         /\ getBalance(balances', stk[r].phone)
              = getBalance(balances, stk[r].phone) + stk[r].amount]_vars

(* The response of a poll loop that ended on a terminal answer             *)
(* ('completed' or 'failed'): a 200 that carries no lastStatus.            *)
TerminalAnswer(res) == res.code = 200 /\ res.lastStatus = Null

(* C9: a /stkpush request whose initiation was accepted makes exactly k    *)
(* status queries when the k-th is the first answered 'completed' or       *)
(* 'failed', exactly 24 when none is, and never more than 24.              *)
C9_StatusQueryCount ==
  [][\A r \in 1..MaxStk :
       /\ stk'[r].queries <= maxAttempts
       /\ (Polling(stk[r]) /\ stk'[r].pc = "done") =>
            IF TerminalAnswer(stk'[r].res)
              THEN stk[r].queries = stk[r].attempt + 1
              ELSE stk[r].queries = maxAttempts]_vars

(* C10: a status query that fails at attempt k < 24 (success=false, or a   *)
(* network failure) is not terminal and not surfaced: the request goes on  *)
(* to attempt k+1, so it ends before its 24th query only on a terminal     *)
(* answer.                                                                 *)
C10_FailedQueryRetried ==
  [][\A r \in 1..MaxStk :
       (stk[r].pc = "status" /\ stk[r].attempt + 1 < maxAttempts
          /\ stk'[r].pc = "done")
       => TerminalAnswer(stk'[r].res)]_vars

(* C11: when the 24th status query of a /stkpush request has been made and *)
(* the request ends without a terminal answer, the Payment (where the      *)
(* program keeps one) is 'timeout', the response has success=false and     *)
(* carries the last status payload as lastStatus, and no balance changes.  *)
C11_TimeoutAfterLastAttempt ==
  [][\A r \in 1..MaxStk :
       ( /\ Polling(stk[r])
         /\ stk[r].queries = maxAttempts
         /\ stk'[r].pc = "done"
         /\ ~TerminalAnswer(stk'[r].res) )
       => /\ ~stk'[r].res.success
          /\ stk'[r].res.lastStatus # Null
          /\ stk[r].pc = "delay" => stk'[r].res.lastStatus = stk[r].statusResult
          /\ balances' = balances
          /\ stk[r].pidx > 0 => payments'[stk[r].pidx].status = "timeout"]_vars

(* C12: a Payment left 'timeout' by its /stkpush request is still answered *)
(* by GET /payments/:id (200, with its status), and a check-status whose   *)
(* query the gateway answers 'completed' makes it 'completed' with the     *)
(* gateway's transaction_code.                                             *)
C12_TimeoutResolvedLater ==
  [][\A i \in 1..Len(payments), k \in 1..MaxChk :
       payments[i].status = "timeout" =>
         /\ GetPaymentRequest(k, payments[i].id) =>
              /\ chk'[k].res.code = 200
              /\ chk'[k].res.payment_id = Some(payments[i].id)
              /\ chk'[k].res.status = Some("timeout")
         /\ \A o \in StatusOutcomes :
              ( /\ chk[k].pidx = i
                /\ CheckStatusReturns(k, o)
                /\ ~o.thrown /\ o.data.success /\ o.data.status = "completed" )
              => /\ payments'[i].status = "completed"
                 /\ payments'[i].transaction_code = o.data.transaction_code
                 /\ chk'[k].res.status = Some("completed")]_vars

(* C12's case: a request that was answered with the timeout response, and  *)
(* a check-status that found its payment completed afterwards.             *)
C12_Witness ==
  \E r \in 1..MaxStk, k \in 1..MaxChk, i \in 1..Len(payments) :
    /\ stk[r].pc = "done"
    /\ stk[r].res.lastStatus # Null
    /\ stk[r].res.payment_id = Some(payments[i].id)
    /\ payments[i].status = "completed"
    /\ payments[i].transaction_code = Some(TxnCode)
    /\ payments[i].error_message = Some("Payment status check timeout")
    /\ chk[k].pc = "done"
    /\ chk[k].res.status = Some("completed")
    /\ chk[k].res.lastStatus # Null

(* C13: every Payment record eventually has a terminal status (completed,  *)
(* failed or timeout) without any further client request, whatever the     *)
(* gateway does, when every gateway call settles and every timer fires.    *)
C13_EveryPaymentSettles ==
  \A i \in 1..MaxStk :
    [](Len(payments) >= i
         => <>( /\ Len(payments) >= i
                /\ payments[i].status \in {"completed", "failed", "timeout"} ))

(* C14: a /stkpush request sends exactly one response, after at most one   *)
(* initiate call, 24 status queries and 24 delays, and every request that  *)
(* was made is answered when every gateway call settles and every timer    *)
(* fires.                                                                  *)
C14_ExactlyOneResponse ==
  /\ [](\A r \in 1..MaxStk :
          /\ stk[r].sent <= 1
          /\ stk[r].pc = "done" <=> stk[r].sent = 1
          /\ stk[r].initiates <= 1
          /\ stk[r].queries <= maxAttempts
          /\ stk[r].delays <= maxAttempts)
  /\ \A r \in 1..MaxStk : (stk[r].pc # "idle") ~> (stk[r].pc = "done")

(* C14's case: a request answered after all 24 queries and delays, and one *)
(* answered after a failed initiate call.                                  *)
C14_Witness ==
  \E r, q \in 1..MaxStk :
    /\ stk[r].pc = "done" /\ stk[r].sent = 1 /\ stk[r].res.lastStatus # Null
    /\ stk[q].pc = "done" /\ stk[q].sent = 1 /\ stk[q].res.code = 500

(* The statuses of a receipt other than 'pending'.                         *)
ReceiptTerminal ==
  {"processing", "cancelled", "loan_released", "stk_failed", "error"}

(* C15: a POST /callback for a reference whose receipt is in a terminal    *)
(* state leaves that receipt as it is, whatever status it reports.         *)
C15_CallbackOnTerminalIsNoOp ==
  [][\A k \in 1..MaxCallbacks, ref \in ReferenceInputs, data \in CallbackInputs :
       ( /\ Callback(k, ref, data)
         /\ ref \in DOMAIN receipts
         /\ receipts[ref].status \in ReceiptTerminal )
       => receipts'[ref] = receipts[ref]]_vars

(* C16: a POST /callback for a receipt that is 'pending' moves it to the   *)
(* success state with the transaction_code on status 'completed', to the   *)
(* failure state on status 'failed', and leaves it 'pending' on any other  *)
(* status.                                                                 *)
C16_CallbackOnPending ==
  [][\A k \in 1..MaxCallbacks, ref \in ReferenceInputs, data \in CallbackInputs :
       ( /\ Callback(k, ref, data)
         /\ ref \in DOMAIN receipts
         /\ receipts[ref].status = "pending" )
       => IF data.status = "completed"
            THEN /\ receipts'[ref].status = "processing"
                 /\ receipts'[ref].transaction_code = data.transaction_code
          ELSE IF data.status = "failed"
            THEN receipts'[ref].status = "cancelled"
          ELSE receipts'[ref] = receipts[ref]]_vars

C18_OneShotStatus ==
  [][\A k \in 1..ChkSlots :
       /\ chk'[k].queries <= 1
       /\ chk[k].pc = "status" =>
            /\ chk[k].queries = 1
            /\ chk'[k].pc \in {"status", "done"}
       /\ \A o \in StatusOutcomes :
            ( /\ \/ CheckStatusReturns(k, o)
                 \/ ~o.thrown /\ TransactionStatusReturns(k, o.data)
                 \/ o.thrown /\ TransactionStatusThrows(k)
              /\ o.thrown \/ ~o.data.success \/ o.data.status = "pending" )
            => /\ chk'[k].pc = "done"
               /\ payments' = payments
               /\ balances' = balances]_vars

(* C18's case: a check-status whose query failed has been answered, with   *)
(* the payment still 'pending' and its /stkpush request still polling.     *)
C18_Witness ==
  \E k \in 1..MaxChk, r \in 1..MaxStk :
    /\ program = "server"
    /\ chk[k].pc = "done"
    /\ chk[k].res.code = 200
    /\ chk[k].res.lastStatus # Null
    /\ ~chk[k].res.lastStatus[1].success
    /\ chk[k].res.status = Some("pending")
    /\ Polling(stk[r])
    /\ Some(payments[stk[r].pidx].id) = chk[k].res.payment_id

(* The phone whose balance a step changes.                                 *)
ChangedPhones ==
  {p \in DOMAIN balances' : getBalance(balances', p) # getBalance(balances, p)}

(* C19: a balance changes only by a credit for a payment this server       *)
(* initiated and the gateway reported completed: the phone credited and    *)
(* the amount added are those of an initiate request the gateway accepted, *)
(* never ones that only the body of a status request supplies.             *)
C19_CreditTiedToPayment ==
  [][\A p \in ChangedPhones :
       \E c \in 1..Len(gateway) :
         /\ gateway[c].phone = p
         /\ getBalance(balances', p) = getBalance(balances, p) + gateway[c].amount
         /\ c \in DOMAIN credits'
         /\ CreditsOf(c) < credits'[c]]_vars

(* C20: the balance of every phone is non-negative in every reachable      *)
(* state (a phone never credited reads as 0).                              *)
C20_BalancesNonNegative ==
  \A p \in DOMAIN balances \cup TxPhoneInputs : getBalance(balances, p) >= 0


(* C21: a step of a /stkpush request of the balance server changes a       *)
(* balance only when it is the step that receives success with status      *)
(* 'completed' for the request's checkout_request_id, and then it is one   *)
(* credit for that checkout_request_id; a request ending on a rejected     *)
(* initiate call, a 'failed' answer, the timeout or a thrown error, and    *)
(* the step that makes the initiate call, leave every balance as it was.   *)
C21_CreditOnlyAfterCompleted ==
  [][\A r \in 1..MaxStk :
       (program = "balance" /\ stk'[r] # stk[r]) =>
         IF \E s \in StatusData :
              s.success /\ s.status = "completed" /\ BalStkPushStatusReturns(r, s)
           THEN /\ credits' = Credited(stk[r].checkout[1])
                /\ balances' = creditBalance(balances, stk[r].phone, stk[r].amount)
           ELSE /\ balances' = balances
                /\ credits' = credits]_vars

(* C21's case: one request was answered 'completed' and credited, another  *)
(* ended without a terminal success, and the balance holds the one credit. *)
C21_Witness ==
  \E r, q \in 1..MaxStk :
    /\ program = "balance"
    /\ stk[r].pc = "done" /\ stk[r].res.success
    /\ stk[r].res.status = Some("completed")
    /\ stk[q].pc = "done" /\ ~stk[q].res.success
    /\ stk[q].res.checkout_request_id # Null
    /\ stk[q].res.status \in {Some("failed"), Some("pending")}
    /\ getBalance(balances, Phone254) = 500
    /\ \A c \in DOMAIN credits : credits[c] = 1


(* C22: in the file-backed program, between the segments of its handlers   *)
(* (a handler awaiting the gateway or the timer, or finished) the list     *)
(* written to payments.json equals the payments list in memory as long as  *)
(* no write has failed, and every segment that changes the list and whose  *)
(* write succeeds leaves the file equal to the list.                       *)
C22_SnapshotEqualsMemory ==
  /\ [](program = "file" /\ writeFailures = 0 => saved = payments)
  /\ [][(program = "file" /\ payments' # payments /\ writeFailures' = writeFailures)
          => saved' = payments']_vars

(* C22's case: a request has created a payment, stored its checkout id and *)
(* timed out, a check-status has then completed it, another request is     *)
(* suspended in its loop, and every write succeeded.                       *)
C22_Witness ==
  \E r \in 1..MaxStk, k \in 1..MaxChk :
    /\ program = "file"
    /\ writeFailures = 0
    /\ Len(payments) = 2
    /\ saved = payments
    /\ payments[1].status = "completed"
    /\ payments[1].error_message = Some("Payment status check timeout")
    /\ chk[k].pc = "done" /\ chk[k].res.status = Some("completed")
    /\ stk[r].pc = "delay" /\ stk[r].pidx = 2


(* C23: when the write of payments.json fails in a segment that ends a     *)
(* request, the response of that request does not report success, and the  *)
(* records of the other payments are left as they were.                    *)
C23_WriteFailureIsAnError ==
  [][(program = "file" /\ writeFailures' > writeFailures) =>
       /\ \A r \in 1..MaxStk :
            (stk'[r] # stk[r] /\ stk'[r].pc = "done") =>
              /\ ~stk'[r].res.success
              /\ \A i \in 1..Len(payments) :
                   i # stk[r].pidx => payments'[i] = payments[i]
       /\ \A k \in 1..MaxChk :
            (chk'[k] # chk[k] /\ chk'[k].pc = "done") =>
              /\ ~chk'[k].res.success
              /\ \A i \in 1..Len(payments) :
                   i # chk[k].pidx => payments'[i] = payments[i]]_vars


(* C24: the payments list only grows, and the id, phone, amount, reference *)
(* and created_at of a record it holds never change, whatever /stkpush and *)
(* check-status do to its other fields.                                    *)
C24_RecordsAppendOnly ==
  [][/\ Len(payments') >= Len(payments)
     /\ \A i \in 1..Len(payments) :
          /\ payments'[i].id = payments[i].id
          /\ payments'[i].phone = payments[i].phone
          /\ payments'[i].amount = payments[i].amount
          /\ payments'[i].reference = payments[i].reference
          /\ payments'[i].created_at = payments[i].created_at]_vars

(* C24's case: two records made at different times, the first failed by    *)
(* the gateway after its initiation was accepted, the second timed out.    *)
C24_Witness ==
  /\ program = "server"
  /\ Len(payments) = 2
  /\ payments[1].status = "failed"
  /\ payments[1].checkout_request_id # Null
  /\ payments[1].created_at = 0
  /\ payments[2].status = "timeout"
  /\ payments[2].created_at = 1
  /\ payments[1].id # payments[2].id


(* C25: the response that ends a /stkpush request carries a message, and   *)
(* when it reports a terminal failure of the payment (the initiate call    *)
(* rejected, a 'failed' answer, the timeout) it carries the reference of   *)
(* the request and, if the gateway assigned one, its checkout_request_id.  *)
C25_FailureResponsesCorrelate ==
  [][\A r \in 1..MaxStk :
       (stk[r].pc # "done" /\ stk'[r].pc = "done") =>
         /\ stk'[r].res.message # Null
         /\ ( \/ stk[r].pc = "initiate" /\ stk'[r].res.code # 500
              \/ Polling(stk[r]) /\ ~stk'[r].res.success /\ stk'[r].res.code # 500 )
            => /\ stk'[r].res.reference # Null
               /\ stk'[r].res.reference = stk[r].reference
               /\ stk'[r].res.checkout_request_id = stk[r].checkout]_vars


(* The step in which the poll loop of request r receives answer s.         *)
PollAnswered(r, s) ==
  \/ StkPushStatusReturns(r, Outcome(FALSE, s))
  \/ BalStkPushStatusReturns(r, s)

(* C26: when a status query of the poll loop is answered success with      *)
(* status 'failed', the request ends in that step with success=false, its  *)
(* Payment (where the program keeps one) is 'failed' with an               *)
(* error_message, no balance is credited, and a request that has ended     *)
(* makes no further query.                                                 *)
C26_FailedBranch ==
  [][\A r \in 1..MaxStk :
       /\ stk[r].pc = "done" => stk'[r].pc = "done" /\ stk'[r].queries = stk[r].queries
       /\ \A s \in StatusData :
            (s.success /\ s.status = "failed" /\ PollAnswered(r, s)) =>
              /\ stk'[r].pc = "done"
              /\ ~stk'[r].res.success
              /\ stk'[r].res.code = 200
              /\ balances' = balances
              /\ credits' = credits
              /\ stk[r].pidx > 0 =>
                   /\ payments'[stk[r].pidx].status = "failed"
                   /\ payments'[stk[r].pidx].error_message # Null
                   /\ payments'[stk[r].pidx].error_message = stk'[r].res.message]_vars

(* C26's case: a request whose status query was answered 'failed' without  *)
(* a message has ended, and its payment is 'failed' with the default       *)
(* error_message.                                                          *)
C26_Witness ==
  \E r \in 1..MaxStk, i \in 1..Len(payments) :
    /\ stk[r].pc = "done"
    /\ stk[r].res.code = 200
    /\ ~stk[r].res.success
    /\ stk[r].res.lastStatus = Null
    /\ stk[r].res.message = Some("Payment failed")
    /\ stk[r].res.payment_id = Some(payments[i].id)
    /\ payments[i].status = "failed"
    /\ payments[i].error_message = Some("Payment failed")
    /\ payments[i].transaction_code = Null


(* C27: a /stkpush request that ends by the timeout has waited the 5 s     *)
(* delay 23 times: once between two consecutive status queries, and not    *)
(* again after the 24th.                                                   *)
C27_WaitsOnlyBetweenAttempts ==
  [][\A r \in 1..MaxStk :
       ( /\ Polling(stk[r])
         /\ stk'[r].pc = "done"
         /\ stk'[r].res.code # 500
         /\ ~TerminalAnswer(stk'[r].res) )
       => /\ stk[r].queries = maxAttempts
          /\ stk[r].delays = maxAttempts - 1]_vars


(* C28: a check-status request for an id no Payment has is answered 404,   *)
(* and one for a Payment whose checkout_request_id is still null is        *)
(* answered 400; in both cases the request ends there without a status     *)
(* query and no Payment record changes.                                    *)
C28_CheckStatusRejections ==
  [][\A k \in 1..MaxChk, id \in IdInputs :
       (CheckStatusRequest(k, id) \/ FileCheckStatusRequest(k, id)) =>
         /\ (\A j \in 1..Len(payments) : payments[j].id # id) =>
              /\ chk'[k].pc = "done"
              /\ chk'[k].res.code = 404
              /\ ~chk'[k].res.success
              /\ chk'[k].queries = 0
              /\ payments' = payments /\ saved' = saved /\ gateway' = gateway
         /\ (\E j \in 1..Len(payments) :
               payments[j].id = id /\ payments[j].checkout_request_id = Null) =>
              /\ chk'[k].pc = "done"
              /\ chk'[k].res.code = 400
              /\ ~chk'[k].res.success
              /\ chk'[k].queries = 0
              /\ payments' = payments /\ saved' = saved /\ gateway' = gateway]_vars

(* C28's case: a check-status was answered 400 for the payment of a        *)
(* request whose initiate call had thrown, which is still 'pending'        *)
(* without a checkout_request_id.                                          *)
C28_Witness ==
  \E k \in 1..MaxChk, r \in 1..MaxStk :
    /\ chk[k].pc = "done"
    /\ chk[k].res.code = 400
    /\ chk[k].res.message = Some("No checkout request ID found for this payment")
    /\ stk[r].pc = "done"
    /\ stk[r].res.code = 500
    /\ Len(payments) = 1
    /\ payments[1].status = "pending"
    /\ payments[1].checkout_request_id = Null


(* C29: every Payment has status pending, completed, failed or timeout;    *)
(* its transaction_code is non-null only while it is 'completed';          *)
(* 'completed' and 'timeout' come with a checkout_request_id; and a        *)
(* checkout_request_id that is set never changes.                          *)
C29_PaymentWellFormed ==
  /\ [](\A i \in 1..Len(payments) :
          /\ payments[i].status \in {"pending", "completed", "failed", "timeout"}
          /\ payments[i].transaction_code # Null => payments[i].status = "completed"
          /\ payments[i].status \in {"completed", "timeout"}
               => payments[i].checkout_request_id # Null)
  /\ [][\A i \in 1..Len(payments) :
          payments[i].checkout_request_id # Null =>
            payments'[i].checkout_request_id = payments[i].checkout_request_id]_vars


(* C30: a GET /payments/stats request is answered 200 with the stats       *)
(* object, in which completed + pending + failed + timeout is              *)
(* total_payments and total_amount is the sum of the amounts of the        *)
(* 'completed' payments.                                                   *)
C30_StatsAnswered ==
  [][\A k \in 1..MaxChk :
       GetStatsRequest(k) =>
         /\ chk'[k].res.code = 200
         /\ chk'[k].res.success
         /\ chk'[k].res.stats # Null
         /\ LET st == chk'[k].res.stats[1]
            IN /\ st.completed + st.pending + st.failed + st.timeout
                    = st.total_payments
               /\ st.total_payments = Len(payments)
               /\ st.total_amount = SumCompleted(Len(payments))]_vars


(* C31: a request that passes validation is given a reference that no      *)
(* earlier request was given: none that a stored payment or receipt has,   *)
(* and none that a request still awaiting the gateway holds, also when     *)
(* the clock has not advanced in between.                                  *)
C31_DistinctReferences ==
  [][/\ \A r \in 1..MaxStk :
          (stk[r].pc = "idle" /\ stk'[r].pc = "initiate") =>
            /\ \A i \in 1..Len(payments) :
                 payments[i].reference # stk'[r].reference[1]
            /\ \A q \in 1..MaxStk :
                 (q # r /\ stk[q].reference # Null) =>
                   stk[q].reference # stk'[r].reference
     /\ \A q \in 1..MaxPay :
          (pay[q].pc = "idle" /\ pay'[q].pc = "initiate") =>
            /\ pay'[q].reference[1] \notin DOMAIN receipts
            /\ \A j \in 1..MaxPay :
                 (j # q /\ pay[j].pc = "initiate") =>
                   pay[j].reference # pay'[q].reference]_vars


(* C32: the step that ends a POST /pay request that passed validation      *)
(* stores one receipt under the reference that was sent to the gateway     *)
(* for it, with status 'pending' when the gateway accepted (200),          *)
(* 'stk_failed' when it rejected (400) and 'error' when the call threw     *)
(* (500), and stores nothing under any other reference.                    *)
C32_OneReceiptPerPay ==
  [][\A q \in 1..MaxPay :
       (pay[q].pc = "initiate" /\ pay'[q].pc = "done") =>
         LET ref == pay[q].reference[1]
         IN /\ ref \in DOMAIN receipts'
            /\ receipts'[ref].reference = Some(ref)
            /\ receipts'[ref].status =
                 (IF pay'[q].res.code = 200 THEN "pending"
                  ELSE IF pay'[q].res.code = 400 THEN "stk_failed"
                  ELSE "error")
            /\ pay'[q].res.reference = Some(ref)
            /\ \A x \in DOMAIN receipts' \ {ref} :
                 x \in DOMAIN receipts /\ receipts'[x] = receipts[x]]_vars


(* The POST /pay requests that have stored a receipt.                      *)
ReceiptsCreated ==
  {q \in 1..MaxPay : pay[q].pc = "done" /\ pay[q].res.reference # Null}

(* A step of POST /pay or POST /callback rewrites the one record it is     *)
(* for and keeps every other record of the store as it was.                *)
ReceiptsWrittenAtomically ==
  \/ Sweep
  \/ \E ref \in DOMAIN receipts' :
       \A x \in DOMAIN receipts :
         x \in DOMAIN receipts' /\ (x # ref => receipts'[x] = receipts[x])

(* C33: no write to the receipts store is lost under any interleaving of   *)
(* POST /pay, POST /callback and the sweep: a step that writes the store   *)
(* changes only its own record, and the store holds one receipt for every  *)
(* POST /pay that created one (besides the record a callback made for a    *)
(* reference no receipt had).                                              *)
C33_NoLostWrite ==
  /\ [][receipts' # receipts => ReceiptsWrittenAtomically]_vars
  /\ [](Cardinality(DOMAIN receipts \ {UnknownReference})
          = Cardinality(ReceiptsCreated))


(* C34: the sweep sets to 'loan_released' the receipts that are            *)
(* 'processing' with a timestamp at least 24 hours old and leaves every    *)
(* other receipt as it is; and a receipt becomes 'loan_released' only in   *)
(* a step of the sweep, and only from 'processing'.                        *)
C34_SweepReleasesOnlyDue ==
  [][/\ Sweep =>
          \A x \in DOMAIN receipts :
            IF /\ receipts[x].status = "processing"
               /\ now >= receipts[x].timestamp + ReleaseAfter
              THEN receipts'[x] = [receipts[x] EXCEPT !.status = "loan_released"]
              ELSE receipts'[x] = receipts[x]
     /\ \A x \in DOMAIN receipts' :
          ( /\ receipts'[x].status = "loan_released"
            /\ x \in DOMAIN receipts => receipts[x].status # "loan_released" )
          => /\ x \in DOMAIN receipts
             /\ receipts[x].status = "processing"
             /\ Sweep]_vars

(* C34's case: the sweep has released one receipt and has left another     *)
(* that is 'processing' for less than 24 hours, and one that POST /pay     *)
(* stored more than 24 hours ago and no callback has touched.              *)
C34_Witness ==
  \E x, y, z \in DOMAIN receipts :
    /\ receipts[x].status = "loan_released"
    /\ receipts[x].transaction_code = Some(TxnCode)
    /\ receipts[y].status = "processing"
    /\ now < receipts[y].timestamp + ReleaseAfter
    /\ receipts[z].status \in {"pending", "stk_failed", "error"}
    /\ now >= receipts[z].timestamp + ReleaseAfter

===========================================================================
